---- MODULE Spec2Model ----
(***************************************************************************)
(* The prediction cell of notebooks/choose_templates.ipynb: one alignment  *)
(* fetch (MMSeqs2Runner.run_job), the nested sweep over MSA depth and      *)
(* model repetition that calls predict_structure_from_templates, and the   *)
(* final zip/download step.  The cell is sequential Python: every call     *)
(* blocks, and an exception ends the cell at the statement that raised.    *)
(***************************************************************************)
EXTENDS Integers, Sequences, FiniteSets, TLC

(* ------------------------------------------------------------ constants *)

\* for nseq in range( 16, 34 )
DepthStart == 16
DepthStop == 34
\* for n_model in range( 5 )
NumModels == 5
\* max_recycles = 1
MaxRecycles == 1

\* Number of distinct template identifiers the model distinguishes.
NumTemplates == 2
\* Number of times the operator executes the cell.
MaxRuns == 2

Templates == 1..NumTemplates

\* templates argument absent (run_job's default)
NoList == {0}

\* The values the caller can give for pdbs: absent, empty, or a list of
\* template identifiers.
PdbChoices == {NoList} \cup SUBSET Templates

VARIABLES
    pc,             \* position in the cell
    run,            \* how many times the cell has been started
    pdbs,           \* pdbs (the caller's template list)
    reported,       \* templates the remote service finds for the sequence
    fetches,        \* run_job calls made by this run
    bundle,         \* what the run_job call of this run returned
    a3m_lines,      \* a3m_lines
    template_path,  \* template_path
    template_dir,   \* template files under the job's template directory
    nseq,           \* nseq
    n_model,        \* n_model
    model_id,       \* model_id
    outname,        \* outname
    cur,            \* arguments of the latest prediction call of this run
    log,            \* (nseq, n_model) of each prediction call of this run, in order
    returned,       \* (nseq, n_model) of each prediction call that returned
    outstanding,    \* external calls issued and not yet returned
    files,          \* structure files in the working directory
    archive,        \* members of af2.zip, when it exists
    failed          \* the exception that ended this run

vars == <<pc, run, pdbs, reported, fetches, bundle, a3m_lines, template_path,
          template_dir, nseq, n_model, model_id, outname, cur, log, returned,
          outstanding, files, archive, failed>>

pyvars == <<a3m_lines, template_path, nseq, n_model, model_id, outname>>

(* ------------------------------------------------------- pure functions *)

\* range( 16, 35 ): the stop value taken as included
DepthRangeInclusive == DepthStart..DepthStop

\* range( 16, 34 )
DepthRange == DepthStart..(DepthStop - 1)

\* range( 5 )
ModelRange == 0..(NumModels - 1)

\* random.choice over all five AlphaFold networks
ModelChoicesAll == 1..5

\* random.choice( ( 1, 2 ) )
ModelChoices == {1, 2}

\* f"{ nseq }.pdb": the repetition index left out of the name
OutNameDepthOnly(m, d) == ToString(d) \o ".pdb"

\* f"{ n_model }_{ nseq }.pdb"
OutName(m, d) == ToString(m) \o "_" \o ToString(d) \o ".pdb"

\* ( nseq + 1 ) // 2: half the depth rounded up
MaxMsaClustersCeil(d) == (d + 1) \div 2

\* nseq // 2
MaxMsaClusters(d) == d \div 2

\* max_extra_msa = nseq
MaxExtraMsa(d) == d

\* The arguments of the template-free call, which passes no template path
PredictArgsNoTemplates ==
               [ seq              |-> "mmseqs2_runner.seq",
                 outname          |-> outname,
                 a3m_lines        |-> a3m_lines,
                 template_path    |-> "none",
                 model_id         |-> model_id,
                 max_msa_clusters |-> MaxMsaClusters(nseq),
                 max_extra_msa    |-> MaxExtraMsa(nseq),
                 max_recycles     |-> MaxRecycles ]

\* The keyword arguments of predict.predict_structure_from_templates
PredictArgs == [ seq              |-> "mmseqs2_runner.seq",
                 outname          |-> outname,
                 a3m_lines        |-> a3m_lines,
                 template_path    |-> template_path,
                 model_id         |-> model_id,
                 max_msa_clusters |-> MaxMsaClusters(nseq),
                 max_extra_msa    |-> MaxExtraMsa(nseq),
                 max_recycles     |-> MaxRecycles ]

\* run_job(): the templates argument left out
RunJobTemplatesOmitted == NoList

\* run_job( templates = pdbs )
RunJobTemplates == pdbs

\* Template selection of run_job: no list or an empty list keeps every
\* template the service reports, a list keeps the reported ones it names.
SelectTemplates(list, found) ==
    IF list = NoList \/ list = {} THEN found ELSE found \cap list

\* run_job finds none of the templates the caller asked for
NoneFound(list, found) ==
    list # NoList /\ list # {} /\ found \cap list = {}

EndsWith(s, suffix) ==
    /\ Len(s) >= Len(suffix)
    /\ SubSeq(s, Len(s) - Len(suffix) + 1, Len(s)) = suffix

\* Names in the working directory
Listing == DOMAIN files \cup (IF archive = {} THEN {} ELSE {"af2.zip"})

\* *".pdb"
Glob(names) == {f \in names : EndsWith(f, ".pdb")}

(* ----------------------------------------------------------------- Init *)

Init ==
    /\ pc = "start"
    /\ run = 1
    /\ pdbs \in PdbChoices
    /\ reported \in SUBSET Templates
    /\ fetches = 0
    /\ bundle = {}
    /\ a3m_lines = "unbound"
    /\ template_path = "unbound"
    /\ template_dir = {}
    /\ nseq = -1
    /\ n_model = -1
    /\ model_id = 0
    /\ outname = "unbound"
    /\ cur = {}
    /\ log = <<>>
    /\ returned = <<>>
    /\ outstanding = {}
    /\ files = <<>>
    /\ archive = {}
    /\ failed = "none"

(* -------------------------------------------------------------- actions *)

RunJobCallId == [fn |-> "run_job", nseq |-> 0, n_model |-> 0]

PredictCallId == [fn |-> "predict", nseq |-> nseq, n_model |-> n_model]

\* mmseqs2_runner = mmseqs2.MMSeqs2Runner( jobname, sequence ), then the
\* call of run_job is issued.
RunJobCall ==
    /\ pc = "start"
    /\ pc' = "fetching"
    /\ fetches' = fetches + 1
    /\ outstanding' = outstanding \cup {RunJobCallId}
    /\ UNCHANGED <<run, pdbs, reported, bundle, pyvars, template_dir, cur,
                   log, returned, files, archive, failed>>

\* The exception caught and passed over: the cell goes on to the sweep
RaiseHandled(kind) ==
    /\ pc' = "loop"
    /\ failed' = kind

\* An exception leaves the cell: nothing after the raising statement runs.
Raise(kind) ==
    /\ pc' = "aborted"
    /\ failed' = kind

\* run_job returns the alignment and the template directory; the sweep
\* starts at the first depth, or the cell goes on to the zip step when a
\* range is empty.
RunJobReturn ==
    /\ pc = "fetching"
    /\ ~NoneFound(RunJobTemplates, reported)
    /\ outstanding' = outstanding \ {RunJobCallId}
    /\ template_dir' = SelectTemplates(RunJobTemplates, reported)
    /\ bundle' = {[a3m       |-> "a3m",
                   path      |-> "T4_lysozyme/templates",
                   templates |-> SelectTemplates(RunJobTemplates, reported)]}
    /\ a3m_lines' = "a3m"
    /\ template_path' = "T4_lysozyme/templates"
    /\ IF DepthRange # {} /\ ModelRange # {}
         THEN /\ pc' = "loop"
              /\ nseq' = DepthStart
              /\ n_model' = 0
         ELSE /\ pc' = "archive"
              /\ UNCHANGED <<nseq, n_model>>
    /\ UNCHANGED <<run, pdbs, reported, fetches, model_id, outname, cur, log,
                   returned, files, archive, failed>>

\* run_job raises: the network, the service's job, or no requested
\* template found.
RunJobFail ==
    /\ pc = "fetching"
    /\ \E kind \in {"network", "job", "no_templates"} :
          /\ kind = "no_templates" => NoneFound(RunJobTemplates, reported)
          /\ Raise(kind)
    /\ outstanding' = outstanding \ {RunJobCallId}
    /\ UNCHANGED <<run, pdbs, reported, fetches, bundle, pyvars, template_dir,
                   cur, log, returned, files, archive>>

\* The outer loop left after its first depth
HasNextInnerOnly(d, m) == m + 1 \in ModelRange

\* Whether the nested loop has an iteration after (d, m)
HasNext(d, m) == m + 1 \in ModelRange \/ d + 1 \in DepthRange

\* The loops nested the other way round: nseq inner, n_model outer
NextPairModelOuter(d, m) ==
    IF d + 1 \in DepthRange THEN <<d + 1, m>> ELSE <<DepthStart, m + 1>>

\* The iteration after (d, m): n_model is the inner loop, nseq the outer
NextPair(d, m) ==
    IF m + 1 \in ModelRange THEN <<d, m + 1>> ELSE <<d + 1, 0>>

\* The structure file predict_structure_from_templates writes: the file
\* at the given name is replaced.
WriteFile(fs, name, blob) == (name :> <<blob>>) @@ fs

\* model_id = random.choice( ( 1, 2 ) ); outname = f"{ n_model }_{ nseq }.pdb"
ChooseModel ==
    /\ pc = "loop"
    /\ pc' = "chosen"
    /\ model_id' \in ModelChoices
    /\ outname' = OutName(n_model, nseq)
    /\ UNCHANGED <<run, pdbs, reported, fetches, bundle, a3m_lines,
                   template_path, template_dir, nseq, n_model, cur, log,
                   returned, outstanding, files, archive, failed>>

\* predict.predict_structure_from_templates( ... ) is called
PredictCall ==
    /\ pc = "chosen"
    /\ pc' = "predicting"
    /\ cur' = {PredictArgs}
    /\ log' = Append(log, <<nseq, n_model>>)
    /\ outstanding' = outstanding \cup {PredictCallId}
    /\ UNCHANGED <<run, pdbs, reported, fetches, bundle, pyvars, template_dir,
                   returned, files, archive, failed>>

\* The call returns with its file written; the loops go on to the next
\* iteration, or the cell goes on to the zip step.
PredictReturn ==
    /\ pc = "predicting"
    /\ outstanding' = outstanding \ {PredictCallId}
    /\ returned' = Append(returned, <<nseq, n_model>>)
    /\ \E c \in cur :
          files' = WriteFile(files, c.outname,
                             [run |-> run, nseq |-> nseq, n_model |-> n_model])
    /\ IF HasNext(nseq, n_model)
         THEN /\ pc' = "loop"
              /\ nseq' = NextPair(nseq, n_model)[1]
              /\ n_model' = NextPair(nseq, n_model)[2]
         ELSE /\ pc' = "archive"
              /\ UNCHANGED <<nseq, n_model>>
    /\ UNCHANGED <<run, pdbs, reported, fetches, bundle, a3m_lines,
                   template_path, template_dir, model_id, outname, cur, log,
                   archive, failed>>

\* The exception caught inside the loop body: the sweep skips to the next
\* iteration
PredictFailSkipped ==
    /\ pc = "predicting"
    /\ failed' = "predict"
    /\ outstanding' = outstanding \ {PredictCallId}
    /\ IF HasNext(nseq, n_model)
         THEN /\ pc' = "loop"
              /\ nseq' = NextPair(nseq, n_model)[1]
              /\ n_model' = NextPair(nseq, n_model)[2]
         ELSE /\ pc' = "archive"
              /\ UNCHANGED <<nseq, n_model>>
    /\ UNCHANGED <<run, pdbs, reported, fetches, bundle, a3m_lines,
                   template_path, template_dir, model_id, outname, cur, log,
                   returned, files, archive>>

\* The call raises: the exception leaves the loops and the cell.
PredictFail ==
    /\ pc = "predicting"
    /\ Raise("predict")
    /\ outstanding' = outstanding \ {PredictCallId}
    /\ UNCHANGED <<run, pdbs, reported, fetches, bundle, pyvars, template_dir,
                   cur, log, returned, files, archive>>

\* !zip -FSr "af2.zip" *".pdb" ; files.download( "af2.zip" )
Archive ==
    /\ pc = "archive"
    /\ pc' = "done"
    /\ archive' = IF Glob(Listing) = {} THEN archive ELSE {Glob(Listing)}
    /\ UNCHANGED <<run, pdbs, reported, fetches, bundle, pyvars, template_dir,
                   cur, log, returned, outstanding, files, failed>>

\* The operator executes the cell again after a completed run.  The
\* kernel keeps the Python variables and the working directory keeps its
\* files; the observations of the run start afresh.
Rerun ==
    /\ pc = "done"
    /\ run < MaxRuns
    /\ pc' = "start"
    /\ run' = run + 1
    /\ fetches' = 0
    /\ bundle' = {}
    /\ cur' = {}
    /\ log' = <<>>
    /\ returned' = <<>>
    /\ UNCHANGED <<pdbs, reported, pyvars, template_dir, outstanding, files,
                   archive, failed>>

Next ==
    \/ RunJobCall
    \/ RunJobReturn
    \/ RunJobFail
    \/ ChooseModel
    \/ PredictCall
    \/ PredictReturn
    \/ PredictFail
    \/ Archive
    \/ Rerun

Spec == Init /\ [][Next]_vars

\* The steps of the cell itself; starting the cell again is the operator's.
CellStep ==
    \/ RunJobCall
    \/ RunJobReturn
    \/ RunJobFail
    \/ ChooseModel
    \/ PredictCall
    \/ PredictReturn
    \/ PredictFail
    \/ Archive

\* Every blocking call of the cell ends, by returning or by raising.
LiveSpec == Init /\ [][Next]_vars /\ WF_vars(CellStep)

(* --------------------------------------------------------------- claims *)

\* The (depth, repetition) pairs of the shipped sweep, written out
ShippedPairs == {<<d, m>> : d \in 16..33, m \in 0..4}

\* The file a returned call of this run leaves at its output name
FileOf(p) == <<[run |-> run, nseq |-> p[1], n_model |-> p[2]]>>

\* The depth of the latest prediction call
CurDepth == log[Len(log)][1]

\* (depth, repetition) order: depth ascending, then repetition ascending
Before(p, q) == p[1] < q[1] \/ (p[1] = q[1] /\ p[2] < q[2])

\* C1: a run that reaches the zip step without a failed call has made
\* exactly N x R prediction calls, one for each (depth, repetition) pair,
\* none missing and none repeated; for the shipped ranges that is the 90
\* pairs of depths 16..33 and repetitions 0..4.
C1_ExactlyOneCallPerPair ==
    pc \in {"archive", "done"} =>
        /\ Len(log) = (DepthStop - DepthStart) * NumModels
        /\ Len(log) = 90
        /\ \A p \in ShippedPairs :
              Cardinality({i \in 1..Len(log) : log[i] = p}) = 1
        /\ \A i \in 1..Len(log) : log[i] \in ShippedPairs

C1_Witness ==
    /\ pc = "archive"
    /\ Len(log) = 90
    /\ Len(returned) = 90
    /\ failed = "none"

\* C2 as stated: every prediction call has twice its cluster cap equal to
\* the depth (cluster cap = depth/2 exactly), extra-alignment cap = depth
\* and recycle count 1.
C2_ClusterCapIsExactHalf ==
    \A c \in cur :
        /\ 2 * c.max_msa_clusters = CurDepth
        /\ c.max_extra_msa = CurDepth
        /\ c.max_recycles = 1

\* C2 amended: every prediction call has cluster cap = floor(depth/2)
\* (depth/2 for an even depth, (depth-1)/2 for an odd one),
\* extra-alignment cap = depth and recycle count 1, whatever the
\* repetition index and the network variant.
C2_ClusterCapIsFloorHalf ==
    \A c \in cur :
        /\ 2 * c.max_msa_clusters <= CurDepth
        /\ CurDepth <= 2 * c.max_msa_clusters + 1
        /\ c.max_extra_msa = CurDepth
        /\ c.max_recycles = 1

C2_Witness ==
    /\ pc = "predicting"
    /\ nseq = 17
    /\ n_model = 3
    /\ \E c \in cur : /\ c.max_msa_clusters = 8
                      /\ c.max_extra_msa = 17
                      /\ c.model_id = 2

\* C3: every call that returned in this run has left exactly its own
\* structure at its output name (so no two calls share a name), every
\* file holds one structure (a write replaces), a first run has written
\* as many files as calls have returned, and after a completed sweep, the
\* first or a later one, the structure files are exactly the 90 names of
\* one sweep.
C3_DistinctNamesOverwritten ==
    /\ \A i \in 1..Len(returned) :
          /\ OutName(returned[i][2], returned[i][1]) \in DOMAIN files
          /\ files[OutName(returned[i][2], returned[i][1])] = FileOf(returned[i])
    /\ \A f \in DOMAIN files : Len(files[f]) = 1
    /\ run = 1 => Cardinality(DOMAIN files) = Len(returned)
    /\ DOMAIN files \subseteq {OutName(p[2], p[1]) : p \in ShippedPairs}
    /\ pc = "done" =>
          /\ Cardinality(DOMAIN files) = 90
          /\ DOMAIN files = {OutName(p[2], p[1]) : p \in ShippedPairs}
          /\ {"0_16.pdb", "4_16.pdb", "0_33.pdb", "4_33.pdb"} \subseteq DOMAIN files

C3_Witness ==
    /\ pc = "done"
    /\ run = 2
    /\ Cardinality(DOMAIN files) = 90
    /\ files["2_20.pdb"] = <<[run |-> 2, nseq |-> 20, n_model |-> 2]>>

\* C4: a run calls run_job at most once, and before its first prediction
\* call; every prediction call gets the alignment text and the template
\* path that this one fetch returned, and the template directory stays as
\* the fetch left it.
C4_BundleFetchedOnceAndReused ==
    /\ fetches <= 1
    /\ log # <<>> => fetches = 1 /\ bundle # {}
    /\ Cardinality(bundle) <= 1
    /\ \A c \in cur : \E b \in bundle :
          /\ c.a3m_lines = b.a3m
          /\ c.template_path = b.path
    /\ \A b \in bundle : template_dir = b.templates

C4_Witness ==
    /\ pc = "predicting"
    /\ Len(log) = 90
    /\ fetches = 1
    /\ run = 2
    /\ \E c \in cur : c.a3m_lines = "a3m"

\* C5: the bundle run_job returns holds every template the service
\* reports when the caller gave no list or an empty one, and only
\* reported templates of the caller's list when the list is not empty;
\* it always carries alignment text.  When none of a non-empty list is
\* found no bundle is returned.
C5_TemplateListIsInclusionFilter ==
    /\ \A b \in bundle :
          /\ b.a3m # ""
          /\ (pdbs = NoList \/ pdbs = {}) => b.templates = reported
          /\ (pdbs # NoList /\ pdbs # {}) =>
                /\ b.templates \subseteq pdbs
                /\ b.templates = reported \cap pdbs
    /\ failed = "no_templates" => bundle = {}

C5_Witness ==
    /\ pc = "loop"
    /\ pdbs = {1}
    /\ reported = {1, 2}
    /\ \E b \in bundle : b.templates = {1}

\* C6: after a prediction call has raised, the run is stopped: the failed
\* call is the last one made and was made once, the zip step is not
\* reached, no call is outstanding, and the files of the calls that
\* returned before are still in place.
C6_PredictFailureStopsRun ==
    failed = "predict" =>
        /\ pc = "aborted"
        /\ outstanding = {}
        /\ Len(log) = Len(returned) + 1
        /\ SubSeq(log, 1, Len(returned)) = returned
        /\ \A i \in 1..Len(returned) : log[Len(log)] # returned[i]
        /\ \A i \in 1..Len(returned) :
              /\ OutName(returned[i][2], returned[i][1]) \in DOMAIN files
              /\ files[OutName(returned[i][2], returned[i][1])]
                    = FileOf(returned[i])

C6_Witness ==
    /\ failed = "predict"
    /\ run = 2
    /\ Len(returned) = 42
    /\ files["1_24.pdb"] = <<[run |-> 2, nseq |-> 24, n_model |-> 1]>>
    /\ files["2_24.pdb"] = <<[run |-> 1, nseq |-> 24, n_model |-> 2]>>

C8_ModelIdIsOneOrTwo ==
    /\ \A c \in cur : c.model_id \in {1, 2}
    /\ pc \in {"chosen", "predicting"} => model_id \in {1, 2}

\* Variant 2 chosen at the last pair right after a call made with variant 1
C8_Witness ==
    /\ pc = "chosen"
    /\ nseq = 33
    /\ n_model = 4
    /\ model_id = 2
    /\ \E c \in cur : c.model_id = 1

\* C9: at most one external call is outstanding; prediction calls are
\* made only after run_job has returned, each only after the one before
\* it has returned, in the order depth ascending, then repetition
\* ascending.
C9_StrictlySequential ==
    /\ Cardinality(outstanding) <= 1
    /\ outstanding # {} <=> pc \in {"fetching", "predicting"}
    /\ log # <<>> => RunJobCallId \notin outstanding /\ bundle # {}
    /\ \/ returned = log
       \/ /\ Len(log) = Len(returned) + 1
          /\ SubSeq(log, 1, Len(returned)) = returned
          /\ failed = "predict" \/ outstanding =
                {[fn |-> "predict", nseq |-> log[Len(log)][1],
                  n_model |-> log[Len(log)][2]]}
    /\ \A i \in 1..(Len(log) - 1) : Before(log[i], log[i + 1])

C9_Witness ==
    /\ pc = "predicting"
    /\ Len(log) = 6
    /\ Len(returned) = 5
    /\ log[5] = <<16, 4>>
    /\ log[6] = <<17, 0>>
    /\ Cardinality(outstanding) = 1

\* C10: when every call returns, a run ends at the zip step or with a
\* raised exception; the zip step is reached only after all 90 prediction
\* calls have returned, and the archive it leaves holds the output file
\* of every one of them.
C10_SweepEndsAndArchivesAll ==
    /\ [](pc = "start" => <>(pc = "done" \/ failed # "none"))
    /\ [](pc \in {"archive", "done"} =>
             /\ Len(returned) = 90
             /\ \A p \in ShippedPairs :
                   \E i \in 1..Len(returned) : returned[i] = p)
    /\ [](pc = "done" =>
             \A p \in ShippedPairs :
                 \E a \in archive : OutName(p[2], p[1]) \in a)

C10_Witness ==
    /\ pc = "done"
    /\ failed = "none"
    /\ Len(returned) = 90
    /\ \E a \in archive : Cardinality(a) = 90 /\ "3_29.pdb" \in a

====
